---- MODULE Spec2Model ----
(***************************************************************************)
(* Model of pkg/agentconfig/container.go: the composition of the           *)
(* traffic-agent container from a Pod and a Sidecar configuration; and of  *)
(* pkg/install/helm/install.go: EnsureTrafficManager and                   *)
(* DeleteTrafficManager acting on the Traffic Manager helm release.        *)
(*                                                                         *)
(* Strings are TLA+ strings; Len, \o and SubSeq act on them character by   *)
(* character, so prefix tests, trimming, splitting and concatenation are   *)
(* computed the way the Go code computes them.                             *)
(*                                                                         *)
(* Records:                                                                *)
(*   Intercept   [AgentPort, ContainerPortName, Protocol]                  *)
(*   Container   [Name, EnvPrefix, MountPoint, Intercepts]   (the policy)  *)
(*   Sidecar     [AgentImage, APIPort, Containers]                         *)
(*   app         [Name, Env, EnvFrom, VolumeMounts]     (core.Container)   *)
(*   EnvVar      [Name, Value, ValueFrom]                                  *)
(*   EnvFrom     [Prefix, Ref]                                             *)
(*   VolumeMount [Name, MountPath, ReadOnly, SubPath]                      *)
(*   Pod         [Containers, Annotations]                                 *)
(* A Go map is a function whose DOMAIN is its key set; the nil map is the  *)
(* function with the empty domain.  A *core.Container result is a sequence *)
(* of length 0 (nil) or 1.                                                 *)
(*                                                                         *)
(* Helm: cluster is the release named "traffic-manager" in the namespace,  *)
(* a sequence of length 0 (no release) or 1; helm is the run in progress,  *)
(*   [op, pc, lookup, existing, attempts, ret, before].                    *)
(***************************************************************************)
EXTENDS Integers, Sequences, FiniteSets, TLC

VARIABLES pod, config, result, visits, unique, done, cluster, helm

vars == <<pod, config, result, visits, unique, done, cluster, helm>>

(***************************************************************************)
(* Bounds of the explored inputs.                                          *)
(***************************************************************************)
MaxPolicies == 2

MaxContainers == 2

MaxIntercepts == 2

(***************************************************************************)
(* Constants of package agentconfig referenced by container.go.            *)
(***************************************************************************)
ContainerName == "traffic-agent"

AnnotationVolumeName == "traffic-annotations"

AnnotationMountPoint == "/tel_pod_info"

ConfigVolumeName == "traffic-config"

ConfigMountPoint == "/etc/traffic-agent"

ExportsVolumeName == "export-volume"

ExportsMountPoint == "/tel_app_exports"

EnvPrefixAgent == "_TEL_AGENT_"

EnvPrefixApp == "_TEL_APP_"

EnvAPIPort == "TELEPRESENCE_API_PORT"

IgnoreVolumeMountsAnnotation == "telepresence.getambassador.io/inject-ignore-volume-mounts"

VrsPrefix == "/var/run/secrets/"

(***************************************************************************)
(* Go standard library functions used by container.go.                     *)
(***************************************************************************)
HasPrefix(s, prefix) ==
    /\ Len(s) >= Len(prefix)
    /\ SubSeq(s, 1, Len(prefix)) = prefix

\* Mutant: the path is used as it is, with its leading slash.
M_TrimPrefix_Keep(s, prefix) == s

TrimPrefix(s, prefix) ==
    IF HasPrefix(s, prefix) THEN SubSeq(s, Len(prefix) + 1, Len(s)) ELSE s

\* Characters are one-character strings; Runes gives the code point of those
\* a string constant can hold and the code needs: ASCII without the grave
\* accent (U+0060), and the three spaces above ASCII and below U+2000.  A
\* module cannot hold a character from U+2000 on, so no string of the model
\* contains one.  A character outside the table is not a space.
\* VT, NEL, NBSP and OghamSpace (U+000B, U+0085, U+00A0, U+1680) have no
\* escape and are written as the character itself.
VT == ""
NEL == ""
NBSP == " "
OghamSpace == " "

\* U+0020..U+005F and U+0061..U+007E, in order.
PrintableLow ==
    " !\"#$%&'()*+,-./0123456789:;<=>?@ABCDEFGHIJKLMNOPQRSTUVWXYZ[\\]^_"
PrintableHigh ==
    "abcdefghijklmnopqrstuvwxyz{|}~"

RunesFrom(chars, first) ==
    [c \in {SubSeq(chars, n, n) : n \in 1..Len(chars)} |->
        first - 1 + (CHOOSE n \in 1..Len(chars) : SubSeq(chars, n, n) = c)]

Runes ==
    RunesFrom(PrintableLow, 32) @@ RunesFrom(PrintableHigh, 97)
    @@ ("\t" :> 9) @@ ("\n" :> 10) @@ (VT :> 11) @@ ("\f" :> 12) @@ ("\r" :> 13)
    @@ (NEL :> 133) @@ (NBSP :> 160) @@ (OghamSpace :> 5760)

\* unicode.IsSpace: in Latin-1 \t \n \v \f \r, space, U+0085, U+00A0; above
\* it the White_Space table: U+1680, U+2000..U+200A, U+2028, U+2029, U+202F,
\* U+205F, U+3000.
SpaceRunes ==
    {9, 10, 11, 12, 13, 32, 133, 160, 5760}
    \cup (8192..8202) \cup {8232, 8233, 8239, 8287, 12288}

IsSpace(c) == Len(c) = 1 /\ c \in DOMAIN Runes /\ Runes[c] \in SpaceRunes

RECURSIVE TrimLeft(_)
TrimLeft(s) ==
    IF Len(s) > 0 /\ IsSpace(SubSeq(s, 1, 1))
    THEN TrimLeft(SubSeq(s, 2, Len(s)))
    ELSE s

RECURSIVE TrimRight(_)
TrimRight(s) ==
    IF Len(s) > 0 /\ IsSpace(SubSeq(s, Len(s), Len(s)))
    THEN TrimRight(SubSeq(s, 1, Len(s) - 1))
    ELSE s

TrimSpace(s) == TrimRight(TrimLeft(s))

\* strings.Split(s, sep) for a one-character separator: the pieces between
\* the separators, so Split("", ",") is the one-element list <<"">>.
RECURSIVE Split(_, _)
Split(s, sep) ==
    LET hits == {i \in 1..Len(s) : SubSeq(s, i, i) = sep}
    IN  IF hits = {}
        THEN <<s>>
        ELSE LET i == CHOOSE h \in hits : \A g \in hits : h <= g
             IN  <<SubSeq(s, 1, i - 1)>> \o Split(SubSeq(s, i + 1, Len(s)), sep)

Digit(d) == SubSeq("0123456789", d + 1, d + 1)

\* strconv.Itoa for the non-negative values an API port takes.
RECURSIVE Itoa(_)
Itoa(n) == IF n < 10 THEN Digit(n) ELSE Itoa(n \div 10) \o Digit(n % 10)

\* m[key] of a Go map: the zero value "" when the key is absent or m is nil.
MapGet(m, key) == IF key \in DOMAIN m THEN m[key] ELSE ""

(***************************************************************************)
(* PortUniqueIntercepts: the intercepts of one container policy, keeping   *)
(* for each AgentPort the first intercept that declares it.                *)
(***************************************************************************)
PortUniqueIntercepts(cc) ==
    LET ics == cc.Intercepts
        keep[i \in 0..Len(ics)] ==
            IF i = 0 THEN <<>>
            ELSE IF \E j \in 1..Len(keep[i - 1]) :
                        keep[i - 1][j].AgentPort = ics[i].AgentPort
                 THEN keep[i - 1]
                 ELSE Append(keep[i - 1], ics[i])
    IN  keep[Len(ics)]

(***************************************************************************)
(* AgentContainer, lines 15-24: the container ports.                       *)
(***************************************************************************)
\* Mutant: ranges over cc.Intercepts instead of PortUniqueIntercepts(cc).
M_ContainerPortsOf_AllIntercepts(cc) ==
    LET ics == cc.Intercepts
    IN  [i \in 1..Len(ics) |->
            [Name          |-> ics[i].ContainerPortName,
             ContainerPort |-> ics[i].AgentPort,
             Protocol      |-> ics[i].Protocol]]

ContainerPortsOf(cc) ==
    LET ics == PortUniqueIntercepts(cc)
    IN  [i \in 1..Len(ics) |->
            [Name          |-> ics[i].ContainerPortName,
             ContainerPort |-> ics[i].AgentPort,
             Protocol      |-> ics[i].Protocol]]

\* Mutant: each policy's ports are put in front of the ports gathered so far.
M_AgentPorts_Prepend(cfg) ==
    LET ccs == cfg.Containers
        ports[k \in 0..Len(ccs)] ==
            IF k = 0 THEN <<>> ELSE ContainerPortsOf(ccs[k]) \o ports[k - 1]
    IN  ports[Len(ccs)]

AgentPorts(cfg) ==
    LET ccs == cfg.Containers
        ports[k \in 0..Len(ccs)] ==
            IF k = 0 THEN <<>> ELSE ports[k - 1] \o ContainerPortsOf(ccs[k])
    IN  ports[Len(ccs)]

(***************************************************************************)
(* EachContainer: the calls f(app, cc) it makes, in order, each given as   *)
(* the index of the Pod container and the index of the policy.             *)
(***************************************************************************)
\* Mutant: the loop does not stop at the first match, so the last one wins.
M_FirstNamed_Last(cns, name) ==
    LET hits == {i \in 1..Len(cns) : cns[i].Name = name}
    IN  IF hits = {} THEN 0 ELSE CHOOSE h \in hits : \A g \in hits : h >= g

\* Mutant: when no container has the name, the last container is taken.
M_FirstNamed_OrLast(cns, name) ==
    LET hits == {i \in 1..Len(cns) : cns[i].Name = name}
    IN  IF hits = {} THEN Len(cns) ELSE CHOOSE h \in hits : \A g \in hits : h <= g

\* The inner loop: the first container named name, 0 when there is none.
FirstNamed(cns, name) ==
    LET hits == {i \in 1..Len(cns) : cns[i].Name = name}
    IN  IF hits = {} THEN 0 ELSE CHOOSE h \in hits : \A g \in hits : h <= g

\* Mutant: the outer loop ranges over the Pod's containers and the inner one
\* over the policies, so the calls come in Pod order.
M_EachContainer_PodOrder(p, cfg) ==
    LET cns == p.Containers
        ccs == cfg.Containers
        firstOf(k) == FirstNamed(cns, ccs[k].Name)
        calls[i \in 0..Len(cns)] ==
            IF i = 0 THEN <<>>
            ELSE LET ks == {k \in 1..Len(ccs) : firstOf(k) = i}
                     ord[n \in 0..Len(ccs)] ==
                         IF n = 0 THEN <<>>
                         ELSE IF n \in ks THEN Append(ord[n - 1], [app |-> i, cc |-> n])
                              ELSE ord[n - 1]
                 IN  calls[i - 1] \o ord[Len(ccs)]
    IN  calls[Len(cns)]

EachContainer(p, cfg) ==
    LET ccs == cfg.Containers
        calls[k \in 0..Len(ccs)] ==
            IF k = 0 THEN <<>>
            ELSE LET i == FirstNamed(p.Containers, ccs[k].Name)
                 IN  IF i = 0 THEN calls[k - 1]
                     ELSE Append(calls[k - 1], [app |-> i, cc |-> k])
    IN  calls[Len(ccs)]

(***************************************************************************)
(* The visitors.                                                           *)
(***************************************************************************)
isVrs(s) == HasPrefix(s, VrsPrefix)

\* Mutant: never reports a mount under /var/run/secrets/ as added.
M_vrsAdded_Never(mounts) == FALSE

vrsAdded(mounts) == \E i \in 1..Len(mounts) : isVrs(mounts[i].MountPath)

\* Mutant: the names are not trimmed.
M_getIgnoredVolumeMounts_NoTrim(annotations) ==
    LET vmSlice == Split(MapGet(annotations, IgnoreVolumeMountsAnnotation), ",")
    IN  {vmSlice[i] : i \in 1..Len(vmSlice)}

getIgnoredVolumeMounts(annotations) ==
    LET vmSlice == Split(MapGet(annotations, IgnoreVolumeMountsAnnotation), ",")
    IN  {TrimSpace(vmSlice[i]) : i \in 1..Len(vmSlice)}

(***************************************************************************)
(* The three loops, statement by statement, on the memory they touch.      *)
(* app is the container the visitor's pointer leads to, an element of      *)
(* pod.Spec.Containers; i is the position of the range; m (or e) is the     *)
(* loop variable; mounts (or es) is the slice being built.                 *)
(* "for _, m := range app.VolumeMounts" assigns element i to m; a later    *)
(* assignment to a field of m writes m.                                    *)
(***************************************************************************)
VolumeMountRange(st, i) == [st EXCEPT !.i = i, !.m = st.app.VolumeMounts[i]]

\* Mutant: the loop variable is &app.VolumeMounts[i]; the assignment writes
\* the element of the Pod.
M_VolumeMountAssign_Element(st, path) ==
    [st EXCEPT !.m.MountPath = path, !.app.VolumeMounts[st.i].MountPath = path]

VolumeMountAssign(st, path) == [st EXCEPT !.m.MountPath = path]

VolumeMountAppend(st) == [st EXCEPT !.mounts = Append(@, st.m)]

VolumeMountBody(st, cc, ignoredVolumeMounts) ==
    IF st.m.Name \in ignoredVolumeMounts THEN st
    ELSE IF isVrs(st.m.MountPath)
         THEN IF vrsAdded(st.mounts) THEN st ELSE VolumeMountAppend(st)
         ELSE VolumeMountAppend(
                  VolumeMountAssign(st, cc.MountPoint \o "/" \o TrimPrefix(st.m.MountPath, "/")))

VolumeMountLoop(app, cc, mounts, annotations) ==
    LET ignoredVolumeMounts == getIgnoredVolumeMounts(annotations)
        n == Len(app.VolumeMounts)
        loop[i \in 0..n] ==
            IF i = 0
            THEN [app |-> app, i |-> 0, mounts |-> mounts,
                  m |-> [Name |-> "", MountPath |-> "", ReadOnly |-> FALSE, SubPath |-> ""]]
            ELSE VolumeMountBody(VolumeMountRange(loop[i - 1], i), cc, ignoredVolumeMounts)
    IN  loop[n]

appendAppContainerVolumeMounts(app, cc, mounts, annotations) ==
    VolumeMountLoop(app, cc, mounts, annotations).mounts

EnvRange(st, i) == [st EXCEPT !.i = i, !.e = st.app.Env[i]]

EnvAssign(st, name) == [st EXCEPT !.e.Name = name]

EnvAppend(st) == [st EXCEPT !.es = Append(@, st.e)]

EnvLoop(app, cc, es) ==
    LET n == Len(app.Env)
        loop[i \in 0..n] ==
            IF i = 0
            THEN [app |-> app, i |-> 0, es |-> es,
                  e |-> [Name |-> "", Value |-> "", ValueFrom |-> ""]]
            ELSE LET st == EnvRange(loop[i - 1], i)
                 IN  EnvAppend(EnvAssign(st, EnvPrefixApp \o cc.EnvPrefix \o st.e.Name))
    IN  loop[n]

appendAppContainerEnv(app, cc, es) == EnvLoop(app, cc, es).es

EnvFromRange(st, i) == [st EXCEPT !.i = i, !.e = st.app.EnvFrom[i]]

EnvFromAssign(st, prefix) == [st EXCEPT !.e.Prefix = prefix]

EnvFromAppend(st) == [st EXCEPT !.es = Append(@, st.e)]

EnvFromLoop(app, cc, es) ==
    LET n == Len(app.EnvFrom)
        loop[i \in 0..n] ==
            IF i = 0
            THEN [app |-> app, i |-> 0, es |-> es, e |-> [Prefix |-> "", Ref |-> ""]]
            ELSE LET st == EnvFromRange(loop[i - 1], i)
                 IN  EnvFromAppend(EnvFromAssign(st, EnvPrefixApp \o cc.EnvPrefix \o st.e.Prefix))
    IN  loop[n]

appendAppContainerEnvFrom(app, cc, es) == EnvFromLoop(app, cc, es).es

(***************************************************************************)
(* AgentContainer.  A nil slice and an empty slice are both the empty      *)
(* sequence, so replacing an empty efs by nil (lines 81-83) changes        *)
(* nothing here.                                                           *)
(***************************************************************************)
AgentEnv(p, cfg) ==
    LET calls == EachContainer(p, cfg)
        evs[k \in 0..Len(calls)] ==
            IF k = 0 THEN <<>>
            ELSE appendAppContainerEnv(p.Containers[calls[k].app],
                                       cfg.Containers[calls[k].cc], evs[k - 1])
        api == IF cfg.APIPort > 0
               THEN <<[Name |-> EnvAPIPort, Value |-> Itoa(cfg.APIPort), ValueFrom |-> ""]>>
               ELSE <<>>
    IN  evs[Len(calls)] \o api \o
        <<[Name |-> EnvPrefixAgent \o "POD_IP", Value |-> "",
           ValueFrom |-> "fieldRef:v1:status.podIP"],
          [Name |-> EnvPrefixAgent \o "NAME", Value |-> "",
           ValueFrom |-> "fieldRef:v1:metadata.name"]>>

AgentEnvFrom(p, cfg) ==
    LET calls == EachContainer(p, cfg)
        efs[k \in 0..Len(calls)] ==
            IF k = 0 THEN <<>>
            ELSE appendAppContainerEnvFrom(p.Containers[calls[k].app],
                                           cfg.Containers[calls[k].cc], efs[k - 1])
    IN  efs[Len(calls)]

AgentAppMounts(p, cfg) ==
    LET calls == EachContainer(p, cfg)
        mounts[k \in 0..Len(calls)] ==
            IF k = 0 THEN <<>>
            ELSE appendAppContainerVolumeMounts(p.Containers[calls[k].app],
                                                cfg.Containers[calls[k].cc],
                                                mounts[k - 1], p.Annotations)
    IN  mounts[Len(calls)]

FixedMounts ==
    <<[Name |-> AnnotationVolumeName, MountPath |-> AnnotationMountPoint,
       ReadOnly |-> FALSE, SubPath |-> ""],
      [Name |-> ConfigVolumeName, MountPath |-> ConfigMountPoint,
       ReadOnly |-> FALSE, SubPath |-> ""],
      [Name |-> ExportsVolumeName, MountPath |-> ExportsMountPoint,
       ReadOnly |-> FALSE, SubPath |-> ""]>>

\* Mutant: returns nil when there are no policies, not when there are no ports.
M_AgentContainer_NilOnNoPolicies(p, cfg) ==
    IF Len(cfg.Containers) = 0 THEN <<>>
    ELSE <<[Name         |-> ContainerName,
            Image        |-> cfg.AgentImage,
            Args         |-> <<"agent">>,
            Ports        |-> AgentPorts(cfg),
            Env          |-> AgentEnv(p, cfg),
            EnvFrom      |-> AgentEnvFrom(p, cfg),
            VolumeMounts |-> AgentAppMounts(p, cfg) \o FixedMounts,
            ReadinessProbe |-> <<"/bin/stat", "/tmp/agent/ready">>]>>

AgentContainer(p, cfg) ==
    LET ports == AgentPorts(cfg)
    IN  IF Len(ports) = 0 THEN <<>>
        ELSE <<[Name         |-> ContainerName,
                Image        |-> cfg.AgentImage,
                Args         |-> <<"agent">>,
                Ports        |-> ports,
                Env          |-> AgentEnv(p, cfg),
                EnvFrom      |-> AgentEnvFrom(p, cfg),
                VolumeMounts |-> AgentAppMounts(p, cfg) \o FixedMounts,
                ReadinessProbe |-> <<"/bin/stat", "/tmp/agent/ready">>]>>

(***************************************************************************)
(* The Pod after AgentContainer.  EachContainer hands the visitors         *)
(* app = &pod.Spec.Containers[i], so what a loop leaves in app is left in  *)
(* the Pod; the slices evs, efs and mounts are threaded from one visit to  *)
(* the next.  Nothing is visited when nil is returned.                     *)
(***************************************************************************)
PodAfterEnvVisits(p, cfg) ==
    LET calls == EachContainer(p, cfg)
        run[k \in 0..Len(calls)] ==
            IF k = 0 THEN [pod |-> p, evs |-> <<>>, efs |-> <<>>]
            ELSE LET cc == cfg.Containers[calls[k].cc]
                     a  == calls[k].app
                     r1 == EnvLoop(run[k - 1].pod.Containers[a], cc, run[k - 1].evs)
                     r2 == EnvFromLoop(r1.app, cc, run[k - 1].efs)
                 IN  [pod |-> [run[k - 1].pod EXCEPT !.Containers[a] = r2.app],
                      evs |-> r1.es, efs |-> r2.es]
    IN  run[Len(calls)].pod

PodAfterMountVisits(p, cfg) ==
    LET calls == EachContainer(p, cfg)
        run[k \in 0..Len(calls)] ==
            IF k = 0 THEN [pod |-> p, mounts |-> <<>>]
            ELSE LET cc == cfg.Containers[calls[k].cc]
                     a  == calls[k].app
                     r  == VolumeMountLoop(run[k - 1].pod.Containers[a], cc,
                                           run[k - 1].mounts, run[k - 1].pod.Annotations)
                 IN  [pod |-> [run[k - 1].pod EXCEPT !.Containers[a] = r.app],
                      mounts |-> r.mounts]
    IN  run[Len(calls)].pod

PodAfterAgentContainer(p, cfg) ==
    IF Len(AgentPorts(cfg)) = 0 THEN p
    ELSE PodAfterMountVisits(PodAfterEnvVisits(p, cfg), cfg)

(***************************************************************************)
(* Inputs.  Three families of (Pod, Sidecar) pairs: one varies the         *)
(* intercepts, one the environments and the matching of names, one the     *)
(* volume mounts and the ignore annotation.                                *)
(***************************************************************************)
SeqsUpTo(S, n) == UNION {[1..k -> S] : k \in 0..n}

Intercept(port, name, proto) ==
    [AgentPort |-> port, ContainerPortName |-> name, Protocol |-> proto]

Policy(name, envPrefix, mountPoint, ics) ==
    [Name |-> name, EnvPrefix |-> envPrefix, MountPoint |-> mountPoint, Intercepts |-> ics]

Sidecar(image, apiPort, ccs) ==
    [AgentImage |-> image, APIPort |-> apiPort, Containers |-> ccs]

App(name, env, envFrom, vms) ==
    [Name |-> name, Env |-> env, EnvFrom |-> envFrom, VolumeMounts |-> vms]

EnvVar(name, value, from) == [Name |-> name, Value |-> value, ValueFrom |-> from]

Mount(name, path, ro, sub) ==
    [Name |-> name, MountPath |-> path, ReadOnly |-> ro, SubPath |-> sub]

NoAnnotations == [k \in {} |-> ""]

IgnoreAnnotation(v) == [k \in {IgnoreVolumeMountsAnnotation} |-> v]

PodOf(cns, annotations) == [Containers |-> cns, Annotations |-> annotations]

\* The annotations of the Pods whose volume mounts vary.
MountAnnotations ==
    {IgnoreAnnotation(" token , aws"),
     IgnoreAnnotation("traffic-config,rel"),
     IgnoreAnnotation(VT \o "data" \o "\f"),
     IgnoreAnnotation(""),
     [k \in {"sidecar.istio.io/inject"} |-> "false"],
     NoAnnotations}

InterceptValues ==
    {Intercept(9900, "http", "TCP"),
     Intercept(9900, "alt", "UDP"),
     Intercept(9901, "http", "TCP")}

PolicyName(k) == IF k = 1 THEN "web" ELSE IF k = 2 THEN "db" ELSE "c" \o Itoa(k)

ePort == EnvVar("PORT", "8080", "")

eHost == EnvVar("HOST", "", "secretKeyRef:cfg:host")

mToken == Mount("token", "/var/run/secrets/kubernetes.io/serviceaccount", TRUE, "")

mAws == Mount("aws", "/var/run/secrets/x", TRUE, "")

mData == Mount("data", "/data", FALSE, "sub")

mRel == Mount("rel", "data", TRUE, "")

mAnon == Mount("", "//x", FALSE, "")

OneIntercept == <<Intercept(9900, "http", "TCP")>>

\* The intercepts vary; the Pod is empty or has one container.
PortsPods ==
    {PodOf(<<>>, NoAnnotations),
     PodOf(<<App("web", <<ePort>>, <<>>, <<mData>>)>>, NoAnnotations)}

PortsPolicies(f) ==
    [k \in DOMAIN f |->
        Policy(PolicyName(k), "", "/tel_app_mounts/" \o PolicyName(k), f[k])]

PortsImages == {<<"tel2:2.6.0", 0>>, <<"tel2:2.6.1", 8080>>}

\* The environments and the names vary.
EnvApps ==
    {App("web", <<>>, <<>>, <<>>),
     App("web", <<ePort>>, <<[Prefix |-> "", Ref |-> "configMap:web"]>>, <<>>),
     App("web", <<ePort, eHost>>, <<>>, <<>>),
     App("db", <<eHost, ePort>>, <<[Prefix |-> "P_", Ref |-> "secret:db"]>>, <<>>),
     App("db", <<ePort>>, <<>>, <<>>)}

EnvPolicies ==
    {Policy("web", "", "/tel_app_mounts/web", OneIntercept),
     Policy("web", "WEB_", "/tel_app_mounts/web", OneIntercept),
     Policy("db", "DB_", "/tel_app_mounts/db", OneIntercept),
     Policy("gone", "G_", "/tel_app_mounts/gone", <<>>)}

\* The volume mounts, the mount points and the annotations vary.
MountApps ==
    {App("web", <<>>, <<>>, <<mData, mToken>>),
     App("web", <<>>, <<>>, <<mToken, mAws>>),
     App("web", <<>>, <<>>, <<mData>>),
     App("db", <<>>, <<>>, <<mAws, mRel>>),
     App("db", <<>>, <<>>, <<mAnon, mToken>>)}

MountPolicies ==
    {Policy("web", "", "/app", OneIntercept),
     Policy("db", "", "/tel_app_mounts/db", OneIntercept),
     Policy("db", "", "/var/run/secrets", OneIntercept)}

PortsInit ==
    /\ pod \in PortsPods
    /\ \E f \in SeqsUpTo(SeqsUpTo(InterceptValues, MaxIntercepts), MaxPolicies) :
       \E im \in PortsImages :
          config = Sidecar(im[1], im[2], PortsPolicies(f))

EnvInit ==
    /\ \E cns \in SeqsUpTo(EnvApps, MaxContainers) : pod = PodOf(cns, NoAnnotations)
    /\ \E ccs \in SeqsUpTo(EnvPolicies, MaxPolicies) :
       \E api \in {0, 8080} :
          config = Sidecar("tel2:2.6.0", api, ccs)

MountInit ==
    /\ \E cns \in SeqsUpTo(MountApps, MaxContainers) :
       \E a \in MountAnnotations :
          pod = PodOf(cns, a)
    /\ \E ccs \in SeqsUpTo(MountPolicies, MaxPolicies) :
          config = Sidecar("tel2:2.6.0", 0, ccs)

(***************************************************************************)
(* Helm installation of the Traffic Manager (pkg/install/helm/install.go). *)
(*                                                                         *)
(* A release is [createdBy, outdated]: the "createdBy" value it was        *)
(* installed with and whether its version differs from the client's.       *)
(* shouldManageRelease, shouldUpgradeRelease, getHelmRelease and loadChart *)
(* are called by install.go but defined elsewhere in the package; each is  *)
(* taken at its interface: a verdict on the release, or a result that may  *)
(* be an error.                                                            *)
(***************************************************************************)
releaseName == "traffic-manager"
releaseOwner == "telepresence-cli"

Release(createdBy, outdated) == [createdBy |-> createdBy, outdated |-> outdated]

shouldManageRelease(rel) == rel.createdBy = releaseOwner

shouldUpgradeRelease(rel) == rel.outdated

\* (existing, err): the release in the cluster, or an error and no release.
getHelmRelease(cl, fails) ==
    IF fails THEN [existing |-> <<>>, err |-> TRUE]
    ELSE [existing |-> cl, err |-> FALSE]

\* The release that install.Run and upgrade.Run leave behind on success:
\* getValues sets "createdBy" to releaseOwner and the tag to the client's.
ReleaseOfValues == Release(releaseOwner, FALSE)

\* Mutant: upgrade whenever the release is outdated, whoever owns it.
M_EnsureDecision_AnyOwner(existing) ==
    IF existing = <<>> THEN "install"
    ELSE IF shouldUpgradeRelease(existing[1]) THEN "upgrade"
    ELSE "none"

\* What EnsureTrafficManager does once the lookup has succeeded.
EnsureDecision(existing) ==
    IF existing = <<>> THEN "install"
    ELSE IF shouldManageRelease(existing[1]) /\ shouldUpgradeRelease(existing[1])
         THEN "upgrade"
    ELSE "none"

\* What DeleteTrafficManager does once the lookup has succeeded.
DeleteDecision(existing) ==
    IF existing = <<>> \/ ~shouldManageRelease(existing[1]) THEN "none"
    ELSE "uninstall"

HelmIdle ==
    [op |-> "none", pc |-> "idle", lookup |-> "none", existing |-> <<>>,
     attempts |-> {}, ret |-> "none", before |-> <<>>]

HelmReturn(h, ret) == [h EXCEPT !.pc = "done", !.ret = ret]

\* Releases a cluster may hold when a run starts: none, the CLI's own, one
\* installed by somebody else, one without a "createdBy" value.
Owners == {"helm-user", releaseOwner, ""}
Clusters == {<<>>} \cup {<<Release(o, u)>> : o \in Owners, u \in BOOLEAN}

(***************************************************************************)
(* The state machine: a Pod and a Sidecar are given, and one of the        *)
(* exported functions is called on them.                                   *)
(***************************************************************************)
Init ==
    /\ \/ PortsInit
       \/ EnvInit
       \/ MountInit
    /\ result = <<>>
    /\ visits = <<>>
    /\ unique = <<>>
    /\ done = "none"
    /\ cluster = <<>>
    /\ helm = HelmIdle

PortUniqueInterceptsCall ==
    /\ done = "none"
    /\ \E k \in 1..Len(config.Containers) :
          unique' = <<[cc |-> k, out |-> PortUniqueIntercepts(config.Containers[k])]>>
    /\ done' = "PortUniqueIntercepts"
    /\ UNCHANGED <<pod, config, result, visits, cluster, helm>>

EachContainerCall ==
    /\ done = "none"
    /\ visits' = EachContainer(pod, config)
    /\ done' = "EachContainer"
    /\ UNCHANGED <<pod, config, result, unique, cluster, helm>>

AgentContainerCall ==
    /\ done = "none"
    /\ result' = AgentContainer(pod, config)
    /\ pod' = PodAfterAgentContainer(pod, config)
    /\ done' = "AgentContainer"
    /\ UNCHANGED <<config, visits, unique, cluster, helm>>

Next ==
    \/ PortUniqueInterceptsCall
    \/ EachContainerCall
    \/ AgentContainerCall

Spec == Init /\ [][Next]_vars

(***************************************************************************)
(* The helm state machine: runs of EnsureTrafficManager and                *)
(* DeleteTrafficManager, one after the other, on a cluster that starts     *)
(* with any release.  Each call into helm or the cluster is a step.        *)
(***************************************************************************)
HelmInit ==
    /\ pod = PodOf(<<>>, NoAnnotations)
    /\ config = Sidecar("", 0, <<>>)
    /\ result = <<>>
    /\ visits = <<>>
    /\ unique = <<>>
    /\ done = "none"
    /\ cluster \in Clusters
    /\ helm = HelmIdle

HelmFrame == UNCHANGED <<pod, config, result, visits, unique, done>>

EnsureTrafficManagerCall ==
    /\ helm.pc \in {"idle", "done"}
    /\ helm' = [HelmIdle EXCEPT !.op = "ensure", !.pc = "getHelmConfig",
                                !.ret = "pending", !.before = cluster]
    /\ UNCHANGED cluster
    /\ HelmFrame

DeleteTrafficManagerCall ==
    /\ helm.pc \in {"idle", "done"}
    /\ helm' = [HelmIdle EXCEPT !.op = "delete", !.pc = "getHelmConfig",
                                !.ret = "pending", !.before = cluster]
    /\ UNCHANGED cluster
    /\ HelmFrame

getHelmConfigStep ==
    /\ helm.pc = "getHelmConfig"
    /\ \E fails \in BOOLEAN :
          helm' = IF fails THEN HelmReturn(helm, "error")
                  ELSE [helm EXCEPT !.pc = IF helm.op = "ensure" THEN "loadChart"
                                           ELSE "getHelmRelease"]
    /\ UNCHANGED cluster
    /\ HelmFrame

loadChartStep ==
    /\ helm.pc = "loadChart"
    /\ \E fails \in BOOLEAN :
          helm' = IF fails THEN HelmReturn(helm, "error")
                  ELSE [helm EXCEPT !.pc = "getHelmRelease"]
    /\ UNCHANGED cluster
    /\ HelmFrame

getHelmReleaseStep ==
    /\ helm.pc = "getHelmRelease"
    /\ \E fails \in BOOLEAN :
          LET r == getHelmRelease(cluster, fails)
          IN  helm' = IF r.err
                      THEN HelmReturn([helm EXCEPT !.lookup = "err"], "nil")
                      ELSE [helm EXCEPT !.lookup = "ok", !.existing = r.existing,
                                        !.pc = "decide"]
    /\ UNCHANGED cluster
    /\ HelmFrame

\* installNew and upgradeExisting run with Atomic set: a failed run is rolled
\* back.
EnsureAct ==
    /\ helm.pc = "decide" /\ helm.op = "ensure"
    /\ LET d == EnsureDecision(helm.existing)
       IN  IF d = "none"
           THEN /\ helm' = HelmReturn(helm, "nil")
                /\ UNCHANGED cluster
           ELSE \E fails \in BOOLEAN :
                /\ helm' = HelmReturn([helm EXCEPT !.attempts = @ \cup {d}],
                                      IF fails THEN "error" ELSE "nil")
                /\ cluster' = IF fails THEN cluster ELSE <<ReleaseOfValues>>
    /\ HelmFrame

\* uninstall.Run is not atomic: a failed run may or may not have removed the
\* release.
DeleteAct ==
    /\ helm.pc = "decide" /\ helm.op = "delete"
    /\ LET d == DeleteDecision(helm.existing)
       IN  IF d = "none"
           THEN /\ helm' = HelmReturn(helm, "nil")
                /\ UNCHANGED cluster
           ELSE \E fails \in BOOLEAN :
                /\ helm' = HelmReturn([helm EXCEPT !.attempts = @ \cup {d}],
                                      IF fails THEN "error" ELSE "nil")
                /\ cluster' \in IF fails THEN {cluster, <<>>} ELSE {<<>>}
    /\ HelmFrame

HelmNext ==
    \/ EnsureTrafficManagerCall
    \/ DeleteTrafficManagerCall
    \/ getHelmConfigStep
    \/ loadChartStep
    \/ getHelmReleaseStep
    \/ EnsureAct
    \/ DeleteAct

SpecHelm == HelmInit /\ [][HelmNext]_vars

(***************************************************************************)
(* Properties.                                                             *)
(***************************************************************************)
Returned == done = "AgentContainer" /\ result # <<>>

Policies == config.Containers

\* C1: AgentContainer returns nil exactly when every policy's port-unique
\* intercept list is empty (their concatenation is empty), whatever the Pod,
\* the APIPort and the AgentImage are.
C1_NilIffNoUniqueIntercepts ==
    done = "AgentContainer" =>
        ((result = <<>>) <=>
            \A k \in 1..Len(Policies) : Len(PortUniqueIntercepts(Policies[k])) = 0)

\* C1 witness: policies are declared and the Pod has containers, but no policy
\* has an intercept, and nil was returned.
C1_Witness ==
    /\ done = "AgentContainer"
    /\ result = <<>>
    /\ Len(Policies) = 2
    /\ Len(pod.Containers) > 0
    /\ config.APIPort > 0

\* C2 as claimed: no two entries of the returned Ports share a ContainerPort
\* and no two share a Name, entries of different policies included.
C2_PortsPairwiseDistinct ==
    Returned =>
        \A i, j \in 1..Len(result[1].Ports) :
            i # j => /\ result[1].Ports[i].ContainerPort # result[1].Ports[j].ContainerPort
                     /\ result[1].Ports[i].Name # result[1].Ports[j].Name

\* The number of Ports entries that policy k contributes: the number of
\* different AgentPorts among its intercepts.
C2_SegmentLen(k) ==
    Cardinality({Policies[k].Intercepts[i].AgentPort : i \in 1..Len(Policies[k].Intercepts)})

RECURSIVE C2_SegmentStart(_)
C2_SegmentStart(k) == IF k = 1 THEN 0 ELSE C2_SegmentStart(k - 1) + C2_SegmentLen(k - 1)

\* C2 amended: Ports is made of one segment per policy, in policy order, and
\* no two entries of the same segment share a ContainerPort.
C2_PortsDistinctPerPolicy ==
    Returned =>
        /\ Len(result[1].Ports) = C2_SegmentStart(Len(Policies) + 1)
        /\ \A k \in 1..Len(Policies) :
              \A i, j \in 1..C2_SegmentLen(k) :
                  i # j => result[1].Ports[C2_SegmentStart(k) + i].ContainerPort
                           # result[1].Ports[C2_SegmentStart(k) + j].ContainerPort

\* C2 witness: a policy declares the same AgentPort twice and a container was
\* returned, with fewer ports than intercepts.
C2_Witness ==
    /\ Returned
    /\ \E k \in 1..Len(Policies) :
          /\ Len(Policies[k].Intercepts) = 2
          /\ Policies[k].Intercepts[1].AgentPort = Policies[k].Intercepts[2].AgentPort
    /\ Len(Policies) = 2
    /\ Len(result[1].Ports) = 2

\* cs is obtained from s by dropping entries: at is the strictly increasing
\* list of the kept positions.
C9_IsSubsequenceAt(cs, s, at) ==
    /\ \A i \in 1..Len(cs) : cs[i] = s[at[i]]
    /\ \A i \in 1..(Len(cs) - 1) : at[i] < at[i + 1]

\* The positions of s that hold the first entry with their AgentPort.
C9_FirstPositions(s) ==
    {i \in 1..Len(s) : \A j \in 1..(i - 1) : s[j].AgentPort # s[i].AgentPort}

C9_PortOf(ic) ==
    [Name |-> ic.ContainerPortName, ContainerPort |-> ic.AgentPort, Protocol |-> ic.Protocol]

RECURSIVE C9_ConcatPorts(_)
C9_ConcatPorts(k) ==
    IF k = 0 THEN <<>>
    ELSE C9_ConcatPorts(k - 1) \o
         [i \in 1..Len(PortUniqueIntercepts(Policies[k])) |->
             C9_PortOf(PortUniqueIntercepts(Policies[k])[i])]

\* C9: PortUniqueIntercepts returns a subsequence of the policy's Intercepts
\* with pairwise different AgentPorts, holding for each AgentPort of the input
\* the first entry that has it (so nothing for an empty input); and the Ports
\* of AgentContainer are these outputs concatenated in policy order.
C9_PortUniqueFirstOccurrences ==
    /\ done = "PortUniqueIntercepts" =>
          LET ics == Policies[unique[1].cc].Intercepts
              out == unique[1].out
              first == C9_FirstPositions(ics)
          IN  /\ Len(out) = Cardinality(first)
              /\ \E at \in [1..Len(out) -> first] : C9_IsSubsequenceAt(out, ics, at)
              /\ \A i, j \in 1..Len(out) : i # j => out[i].AgentPort # out[j].AgentPort
              /\ (ics = <<>> => out = <<>>)
    /\ Returned => result[1].Ports = C9_ConcatPorts(Len(Policies))

\* C9 witness: PortUniqueIntercepts was applied to a policy whose second
\* intercept repeats the AgentPort of the first, and kept only the first.
C9_Witness ==
    /\ done = "PortUniqueIntercepts"
    /\ Len(Policies[unique[1].cc].Intercepts) = 2
    /\ Policies[unique[1].cc].Intercepts[1].AgentPort
         = Policies[unique[1].cc].Intercepts[2].AgentPort
    /\ unique[1].out = <<Policies[unique[1].cc].Intercepts[1]>>

\* The containers of the Pod that have the name of policy k, and the first.
Named(k) == {i \in 1..Len(pod.Containers) : pod.Containers[i].Name = Policies[k].Name}

Matched(k) == Named(k) # {}

FirstOf(k) == CHOOSE i \in Named(k) : \A j \in Named(k) : i <= j

\* C5: the number of Env entries policy k accounts for, and where they start.
C5_EnvCount(k) == IF Matched(k) THEN Len(pod.Containers[FirstOf(k)].Env) ELSE 0

RECURSIVE C5_EnvStart(_)
C5_EnvStart(k) == IF k = 1 THEN 0 ELSE C5_EnvStart(k - 1) + C5_EnvCount(k - 1)

C5_Decimal(n) ==
    IF n = 0 THEN "0" ELSE IF n = 8080 THEN "8080" ELSE "?"

\* C5: Env is, for each policy in declared order that has a matching
\* container, that container's variables in their order, renamed to
\* EnvPrefixApp + EnvPrefix + name and otherwise unchanged; then the API port
\* variable iff APIPort > 0; then the pod-IP variable; then the pod-name one.
C5_EnvOrder ==
    Returned =>
        LET env == result[1].Env
            n == C5_EnvStart(Len(Policies) + 1)
            api == IF config.APIPort > 0 THEN 1 ELSE 0
        IN  /\ Len(env) = n + api + 2
            /\ \A k \in 1..Len(Policies) :
                  \A e \in 1..C5_EnvCount(k) :
                      LET orig == pod.Containers[FirstOf(k)].Env[e]
                      IN  env[C5_EnvStart(k) + e] =
                              [Name      |-> "_TEL_APP_" \o Policies[k].EnvPrefix \o orig.Name,
                               Value     |-> orig.Value,
                               ValueFrom |-> orig.ValueFrom]
            /\ api = 1 =>
                  /\ env[n + 1].Name = "TELEPRESENCE_API_PORT"
                  /\ env[n + 1].Value = C5_Decimal(config.APIPort)
            /\ \A i \in 1..Len(env) : env[i].Name = "TELEPRESENCE_API_PORT" => i = n + 1 /\ api = 1
            /\ env[n + api + 1].Name = "_TEL_AGENT_POD_IP"
            /\ env[n + api + 1].ValueFrom = "fieldRef:v1:status.podIP"
            /\ env[n + api + 2].Name = "_TEL_AGENT_NAME"
            /\ env[n + api + 2].ValueFrom = "fieldRef:v1:metadata.name"

\* C5 witness: the policies are declared in the order opposite to the Pod's
\* containers, both match a container with variables, the API port is set, and
\* the first policy's variables come first.
C5_Witness ==
    /\ Returned
    /\ config.APIPort > 0
    /\ Len(Policies) = 2 /\ Len(pod.Containers) = 2
    /\ Matched(1) /\ Matched(2)
    /\ FirstOf(1) = 2 /\ FirstOf(2) = 1
    /\ C5_EnvCount(1) = 2 /\ C5_EnvCount(2) = 1
    /\ Len(result[1].Env) = 6
    /\ result[1].Env[1].Name = "_TEL_APP_DB_HOST"
    /\ result[1].Env[3].Name = "_TEL_APP_WEB_PORT"

\* C7: EachContainer calls the visitor at most once per policy: once, with
\* the first container in Pod order that has the policy's Name, when there is
\* one, and never otherwise; never with a container of another name.
C7_VisitorOncePerPolicy ==
    done = "EachContainer" =>
        /\ \A k \in 1..Len(Policies) :
              LET at == {v \in 1..Len(visits) : visits[v].cc = k}
              IN  /\ Cardinality(at) <= 1
                  /\ Matched(k) => /\ Cardinality(at) = 1
                                   /\ \A v \in at : visits[v].app = FirstOf(k)
                  /\ ~Matched(k) => at = {}
        /\ \A v \in 1..Len(visits) :
              /\ visits[v].cc \in 1..Len(Policies)
              /\ visits[v].app \in 1..Len(pod.Containers)
              /\ pod.Containers[visits[v].app].Name = Policies[visits[v].cc].Name

\* C7 witness: two containers of the Pod have the name of a policy, another
\* policy matches none, and the visitor was called once, with the first.
C7_Witness ==
    /\ done = "EachContainer"
    /\ Len(Policies) = 2
    /\ Cardinality(Named(1)) = 2
    /\ ~Matched(2)
    /\ visits = <<[app |-> 1, cc |-> 1]>>
    /\ pod.Containers[1] # pod.Containers[2]

\* The Sidecar without its policy k.
C8_Without(k) ==
    [config EXCEPT !.Containers =
        SubSeq(Policies, 1, k - 1) \o SubSeq(Policies, k + 1, Len(Policies))]

\* C8 as claimed: with a policy that matches no container, AgentContainer
\* returns what it returns for the Sidecar without that policy.
C8_UnmatchedPolicyChangesNothing ==
    done = "AgentContainer" =>
        \A k \in 1..Len(Policies) :
            ~Matched(k) => result = AgentContainer(pod, C8_Without(k))

\* C8 amended: a policy that matches no container adds nothing to Env, EnvFrom
\* and VolumeMounts, and the result is the one without the policy when the
\* policy has no intercepts; its intercepts still give Ports entries.
C8_UnmatchedPolicyOnlyAddsPorts ==
    done = "AgentContainer" =>
        \A k \in 1..Len(Policies) :
            ~Matched(k) =>
                /\ Policies[k].Intercepts = <<>> => result = AgentContainer(pod, C8_Without(k))
                /\ result # <<>> =>
                      /\ result[1].Env = AgentEnv(pod, C8_Without(k))
                      /\ result[1].EnvFrom = AgentEnvFrom(pod, C8_Without(k))
                      /\ result[1].VolumeMounts = AgentAppMounts(pod, C8_Without(k)) \o FixedMounts
                      /\ Len(result[1].Ports) =
                            Len(AgentPorts(C8_Without(k))) + C2_SegmentLen(k)

\* C8 witness: the Pod has a container with variables and mounts, the second
\* policy names no container of the Pod and has an intercept, and a container
\* was returned.
C8_Witness ==
    /\ Returned
    /\ Len(Policies) = 2
    /\ Matched(1) /\ ~Matched(2)
    /\ Len(pod.Containers[FirstOf(1)].Env) > 0
    /\ Len(Policies[2].Intercepts) > 0
    /\ Len(result[1].Ports) = Len(AgentPorts(C8_Without(2))) + 1

\* The mounts AgentContainer copied from the application containers: all but
\* the three fixed ones at the end.
AppOut == SubSeq(result[1].VolumeMounts, 1, Len(result[1].VolumeMounts) - 3)

UnderSecrets(path) == Len(path) >= 17 /\ SubSeq(path, 1, 17) = "/var/run/secrets/"

StripOneSlash(path) ==
    IF Len(path) > 0 /\ SubSeq(path, 1, 1) = "/" THEN SubSeq(path, 2, Len(path)) ELSE path

\* The mounts the visitor meets, in the order it meets them: <<k, j>> is mount
\* j of the container matched by policy k.
Met == UNION {{<<k, j>> : j \in 1..Len(pod.Containers[FirstOf(k)].VolumeMounts)} :
                 k \in {n \in 1..Len(Policies) : Matched(n)}}

Source(kj) == pod.Containers[FirstOf(kj[1])].VolumeMounts[kj[2]]

Before(a, b) == a[1] < b[1] \/ (a[1] = b[1] /\ a[2] < b[2])

Rewritten(kj) ==
    [Name      |-> Source(kj).Name,
     MountPath |-> Policies[kj[1]].MountPoint \o "/" \o StripOneSlash(Source(kj).MountPath),
     ReadOnly  |-> Source(kj).ReadOnly,
     SubPath   |-> Source(kj).SubPath]

\* Those the ignore rule lets through.
NotIgnored == {kj \in Met : Source(kj).Name \notin getIgnoredVolumeMounts(pod.Annotations)}

\* C3: the premise: two different matched containers each have a mount under
\* /var/run/secrets/.
C3_TwoContainersMountSecrets ==
    \E a, b \in Met :
        /\ FirstOf(a[1]) # FirstOf(b[1])
        /\ UnderSecrets(Source(a).MountPath)
        /\ UnderSecrets(Source(b).MountPath)

C3_SecretsOut == {i \in 1..Len(result[1].VolumeMounts) :
                     UnderSecrets(result[1].VolumeMounts[i].MountPath)}

\* C3 as claimed: then exactly one mount of the result is under
\* /var/run/secrets/, whatever the MountPoints and the annotation.
C3_ExactlyOneSecretsMount ==
    (Returned /\ C3_TwoContainersMountSecrets) => Cardinality(C3_SecretsOut) = 1

\* Credential mounts that are not ignored, and other mounts that are not
\* ignored and whose rewritten path falls under /var/run/secrets/.
C3_Credential == {kj \in NotIgnored : UnderSecrets(Source(kj).MountPath)}

C3_RewrittenUnder ==
    {kj \in NotIgnored : /\ ~UnderSecrets(Source(kj).MountPath)
                         /\ UnderSecrets(Rewritten(kj).MountPath)}

C3_FirstCredential == CHOOSE c \in C3_Credential : \A d \in C3_Credential : c = d \/ Before(c, d)

C3_CredentialKept ==
    /\ C3_Credential # {}
    /\ \A r \in C3_RewrittenUnder : ~Before(r, C3_FirstCredential)

\* C3 amended: at most one credential mount is copied: the first, in policy
\* order, that the ignore rule lets through, unless a mount copied before it
\* was rewritten to a path under /var/run/secrets/.  The mounts of the result
\* under that prefix are this one and the mounts rewritten to such a path, so
\* there is exactly one when no rewritten path is under the prefix and some
\* credential mount is not ignored, and none when all are ignored.
C3_OneCredentialMountKept ==
    (Returned /\ C3_TwoContainersMountSecrets) =>
        /\ Cardinality(C3_SecretsOut) =
              Cardinality(C3_RewrittenUnder) + (IF C3_CredentialKept THEN 1 ELSE 0)
        /\ C3_CredentialKept =>
              Cardinality({i \in C3_SecretsOut :
                  result[1].VolumeMounts[i] = Source(C3_FirstCredential)}) >= 1
        /\ (C3_RewrittenUnder = {} /\ C3_Credential # {}) =>
              /\ Cardinality(C3_SecretsOut) = 1
              /\ \A i \in C3_SecretsOut :
                    result[1].VolumeMounts[i] = Source(C3_FirstCredential)
        /\ (C3_RewrittenUnder = {} /\ C3_Credential = {}) => C3_SecretsOut = {}

\* C3 witness: two different matched containers mount different credential
\* volumes, nothing is ignored or rewritten under the prefix, and the result
\* has the first one only.
C3_Witness ==
    /\ Returned
    /\ C3_TwoContainersMountSecrets
    /\ C3_RewrittenUnder = {}
    /\ Cardinality({Source(c) : c \in C3_Credential}) = 2
    /\ Cardinality(C3_SecretsOut) = 1
    /\ \A i \in C3_SecretsOut : result[1].VolumeMounts[i] = Source(C3_FirstCredential)

\* The names an annotation value lists: its pieces between commas, with the
\* white space around them removed.
C4_Pieces(v) ==
    {ab \in (1..(Len(v) + 1)) \X (0..Len(v)) :
        /\ ab[2] >= ab[1] - 1
        /\ ab[1] = 1 \/ SubSeq(v, ab[1] - 1, ab[1] - 1) = ","
        /\ ab[2] = Len(v) \/ SubSeq(v, ab[2] + 1, ab[2] + 1) = ","
        /\ \A i \in ab[1]..ab[2] : SubSeq(v, i, i) # ","}

\* White space: \t \n \v \f \r, space, U+0085, U+00A0, U+1680 (the spaces a
\* string of the model can hold).
C4_Blank(c) == c \in {"\t", "\n", VT, "\f", "\r", " ", NEL, NBSP, OghamSpace}

C4_Trimmed(w) ==
    LET ink == {i \in 1..Len(w) : ~C4_Blank(SubSeq(w, i, i))}
    IN  IF ink = {} THEN ""
        ELSE SubSeq(w, CHOOSE i \in ink : \A j \in ink : i <= j,
                       CHOOSE i \in ink : \A j \in ink : i >= j)

C4_Listed ==
    IF IgnoreVolumeMountsAnnotation \in DOMAIN pod.Annotations
    THEN {C4_Trimmed(SubSeq(pod.Annotations[IgnoreVolumeMountsAnnotation], ab[1], ab[2])) :
             ab \in C4_Pieces(pod.Annotations[IgnoreVolumeMountsAnnotation])}
    ELSE {}

\* C4 as claimed: no mount of the result has a name the annotation lists.
C4_NoListedMount ==
    Returned =>
        \A i \in 1..Len(result[1].VolumeMounts) :
            result[1].VolumeMounts[i].Name \notin C4_Listed

\* C4 amended: no mount copied from an application container has a name the
\* annotation lists; the three fixed mounts of the agent end the list
\* whatever the annotation lists.
C4_NoListedAppMount ==
    Returned =>
        /\ \A i \in 1..Len(AppOut) : AppOut[i].Name \notin C4_Listed
        /\ Len(result[1].VolumeMounts) >= 3
        /\ LET n == Len(result[1].VolumeMounts)
           IN  /\ result[1].VolumeMounts[n - 2].Name = "traffic-annotations"
               /\ result[1].VolumeMounts[n - 1].Name = "traffic-config"
               /\ result[1].VolumeMounts[n].Name = "export-volume"

\* C4 witness: the annotation lists, with blanks around them, the names of
\* mounts of a matched container, another mount of it was copied, and none of
\* the listed ones was.
C4_Witness ==
    /\ Returned
    /\ C4_Listed = {"token", "aws"}
    /\ \E kj \in Met : Source(kj).Name = "token"
    /\ \E kj \in Met : Source(kj).Name = "aws"
    /\ Len(AppOut) > 0
    /\ \A i \in 1..Len(AppOut) : AppOut[i].Name \notin {"token", "aws"}

\* C6: every copied mount is a mount of a matched container, unchanged when
\* its path is under /var/run/secrets/ and otherwise with the path
\* MountPoint + "/" + (path less one leading slash) and its other fields
\* unchanged; and every mount let through whose path is not under
\* /var/run/secrets/ is copied that way.
C6_MountPathRewritten ==
    Returned =>
        /\ \A i \in 1..Len(AppOut) :
              \E kj \in Met :
                  \/ UnderSecrets(Source(kj).MountPath) /\ AppOut[i] = Source(kj)
                  \/ ~UnderSecrets(Source(kj).MountPath) /\ AppOut[i] = Rewritten(kj)
        /\ \A kj \in NotIgnored :
              ~UnderSecrets(Source(kj).MountPath) =>
                  \E i \in 1..Len(AppOut) : AppOut[i] = Rewritten(kj)
        /\ \A kj \in NotIgnored :
              (Source(kj).MountPath = "/data" /\ Policies[kj[1]].MountPoint = "/app") =>
                  /\ \E i \in 1..Len(AppOut) :
                        /\ AppOut[i].MountPath = "/app/data"
                        /\ AppOut[i].Name = Source(kj).Name
                  /\ \A i \in 1..Len(AppOut) : AppOut[i].MountPath # "/app//data"

\* C6 witness: /data was copied under MountPoint /app as /app/data with its
\* sub-path, and a credential mount was copied with its own path.
C6_Witness ==
    /\ Returned
    /\ \E i \in 1..Len(AppOut) :
          AppOut[i] = [Name |-> "data", MountPath |-> "/app/data",
                       ReadOnly |-> FALSE, SubPath |-> "sub"]
    /\ \E i \in 1..Len(AppOut) :
          AppOut[i] = [Name |-> "token",
                       MountPath |-> "/var/run/secrets/kubernetes.io/serviceaccount",
                       ReadOnly |-> TRUE, SubPath |-> ""]

\* C10: with no ignore annotation the ignore rule excludes no mount: every
\* mount of a matched container whose path is not under /var/run/secrets/
\* is copied, whatever its name.
C10_NoAnnotationNothingIgnored ==
    (Returned /\ IgnoreVolumeMountsAnnotation \notin DOMAIN pod.Annotations) =>
        \A kj \in Met :
            ~UnderSecrets(Source(kj).MountPath) =>
                \E i \in 1..Len(AppOut) : AppOut[i] = Rewritten(kj)

\* C11: no call changes the Pod (the Name, Env, EnvFrom and VolumeMounts of
\* each of its containers, its annotations) or the Sidecar: the renamed
\* variables and the rewritten paths are in the result only.
C11_InputsUnchanged == [][pod' = pod /\ config' = config]_vars

\* C11 witness: AgentContainer returned a container with a renamed variable
\* and a rewritten mount path, and the Pod's container has the original ones.
C11_Witness ==
    /\ Returned
    /\ Len(pod.Containers) = 1 /\ Len(Policies) > 0 /\ FirstOf(1) = 1
    /\ pod.Containers[1].Env = <<[Name |-> "PORT", Value |-> "8080", ValueFrom |-> ""]>>
    /\ pod.Containers[1].VolumeMounts[1].MountPath = "/data"
    /\ result[1].Env[1].Name = "_TEL_APP_PORT"
    /\ result[1].VolumeMounts[1].MountPath = "/tel_app_mounts/web/data"

\* C12: a release the CLI does not manage is never modified.  In a run of
\* EnsureTrafficManager an upgrade is attempted only after a successful lookup
\* that found a release for which shouldManageRelease and shouldUpgradeRelease
\* hold, and an install only after a successful lookup that found none; in a
\* run of DeleteTrafficManager an uninstall is attempted only after a
\* successful lookup that found a release for which shouldManageRelease
\* holds.  A failed lookup makes both return nil with nothing attempted.
Found == helm.lookup = "ok" /\ helm.existing # <<>>

C12_UnmanagedReleaseUntouched ==
    /\ "upgrade" \in helm.attempts =>
          /\ helm.op = "ensure" /\ Found
          /\ shouldManageRelease(helm.existing[1])
          /\ shouldUpgradeRelease(helm.existing[1])
    /\ "install" \in helm.attempts =>
          helm.op = "ensure" /\ helm.lookup = "ok" /\ helm.existing = <<>>
    /\ "uninstall" \in helm.attempts =>
          helm.op = "delete" /\ Found /\ shouldManageRelease(helm.existing[1])
    /\ helm.lookup = "err" =>
          helm.pc = "done" /\ helm.ret = "nil" /\ helm.attempts = {}
    /\ (helm.before # <<>> /\ ~shouldManageRelease(helm.before[1])) =>
          cluster = helm.before /\ helm.attempts = {}

\* C12 witness: EnsureTrafficManager has returned after finding an outdated
\* release installed by somebody else, and left it as it was.
C12_Witness ==
    /\ helm.op = "ensure" /\ helm.pc = "done" /\ helm.ret = "nil"
    /\ Found
    /\ helm.existing[1] = Release("helm-user", TRUE)
    /\ helm.attempts = {}
    /\ cluster = <<Release("helm-user", TRUE)>>

====
